---- MODULE Spec2Model ----
(***************************************************************************)
(* Model of ci/updateTrackedBranch.py: the script that notifies a Critic   *)
(* system about an updated ref and, when an update of a review was         *)
(* triggered, polls the same endpoint until the update completes or the    *)
(* update timeout elapses.                                                 *)
(*                                                                         *)
(* Time is counted in ticks of a quarter time unit, so that the 0.5 margin *)
(* and the 0.5 sleeps are two ticks and "remaining < 0.5" is one tick.     *)
(* Texts are sequences of tokens; the token "\n" is the line break.        *)
(* A JSON object is a function from the keys present to their values.      *)
(* One entry of log/stdout stands for one call of print_and_log; the       *)
(* indented dump written by print_debug_json is kept as a single entry.    *)
(***************************************************************************)
EXTENDS Integers, Sequences, FiniteSets, TLC

VARIABLES
    pc,            \* position of the script: "main", "resolve", "request", "poll", "exit"
    args,          \* the parsed command line (argparse namespace)
    repo,          \* what `git rev-parse <ref>` does in the working directory
    debug,         \* module-level debug flag
    log,           \* module-level log buffer
    stdout,        \* lines written to standard output
    critic_url,    \* main's local critic_url
    kwargs,        \* main's local kwargs, passed to every requests.post
    value,         \* the commit value of the ref (refs[0][1])
    git_calls,     \* number of times the local git was run
    start,         \* time.time() taken before the initial request
    deadline,      \* main's local deadline (captured by issue_request)
    now,           \* the wall clock, in ticks
    nreq,          \* number of requests.post calls made so far
    request,       \* the last request made
    data,          \* the outcome of the last request (main's local data)
    received,      \* the time at which the last requests.post call ended
    exc,           \* the exception that left main, or NoExc
    exit_code      \* the process's exit status, or NoExit while running

vars == <<pc, args, repo, debug, log, stdout, critic_url, kwargs, value,
          git_calls, start, deadline, now, nreq, request, data, received,
          exc, exit_code>>

----------------------------------------------------------------------------
(* Bounds of the model *)

\* The remote answers a request within MaxDelay ticks, or not before the timeout.
MaxDelay == 1
\* A request that times out raises at most MaxJitter ticks after its timeout.
MaxJitter == 1

(* Program constants *)

connection_timeout == 5
update_timeout == 30
\* 0.5 time units, in ticks
HalfUnit == 2
Unit == 2 * HalfUnit

\* Optional values: Python's None, or a text
None == [none |-> TRUE]
Some(t) == [none |-> FALSE, v |-> t]
\* Python truthiness of an optional text
Truthy(o) == ~o.none /\ o.v # <<>>

NoExc == [type |-> "none"]
NoExit == -1
NoRequest == [kind |-> "none"]
NoOutcome == [kind |-> "none"]

Min(a, b) == IF a < b THEN a ELSE b

----------------------------------------------------------------------------
(* Texts and the print helpers *)

NL == "\n"

\* Index of the first line break of s, or 0
FirstBreak(s) ==
    IF \E i \in 1..Len(s) : s[i] = NL
    THEN CHOOSE i \in 1..Len(s) : s[i] = NL /\ \A j \in 1..(i - 1) : s[j] # NL
    ELSE 0

\* str.split("\n") instead of str.splitlines(): a last, empty line after a
\* trailing line break, and one empty line for the empty text
RECURSIVE split_on_breaks(_)
split_on_breaks(s) ==
    LET i == FirstBreak(s)
    IN IF i = 0 THEN <<s>>
       ELSE <<SubSeq(s, 1, i - 1)>> \o split_on_breaks(SubSeq(s, i + 1, Len(s)))

\* str.splitlines(): no empty last line after a trailing line break
RECURSIVE splitlines(_)
splitlines(s) ==
    IF s = <<>> THEN <<>>
    ELSE LET i == FirstBreak(s)
         IN IF i = 0 THEN <<s>>
            ELSE <<SubSeq(s, 1, i - 1)>> \o splitlines(SubSeq(s, i + 1, Len(s)))

\* A printed line is the sequence of its tag, the rendering of its payload
\* ("bytes" or "str") and the payload's tokens.
\* "<tag> %s" % line.encode("utf-8"): the payload is rendered as a bytes literal
EncodedLine(tag, line) == <<tag, "bytes">> \o line
\* "[critic] %s" % ("-" * 60)
SeparatorLine == <<"[critic]", "str", "-" , "*", "60">>

\* print_and_log that records only what it prints
print_and_log_printed_only(io, line, do_print) ==
    IF do_print
    THEN [log |-> Append(io.log, line), out |-> Append(io.out, line)]
    ELSE io

\* io is the pair of the log buffer and standard output
print_and_log(io, line, do_print) ==
    [log |-> Append(io.log, line),
     out |-> IF do_print THEN Append(io.out, line) ELSE io.out]

RECURSIVE print_lines(_, _, _, _)
print_lines(io, tag, lines, do_print) ==
    IF lines = <<>> THEN io
    ELSE print_lines(print_and_log(io, EncodedLine(tag, Head(lines)), do_print),
                     tag, Tail(lines), do_print)

\* print_debug that writes its lines whatever the debug flag is
print_debug_always(io, message, dbg) ==
    print_lines(io, "[critic:debug]", splitlines(message), TRUE)

print_debug(io, message, dbg) ==
    print_lines(io, "[critic:debug]", splitlines(message), dbg)

\* json.dumps(data, indent=4, sort_keys=True) of the object named `what`,
\* kept as one text without line breaks
print_debug_json(io, what, dbg) ==
    print_debug(io, <<"json", what>>, dbg)

print_progress(io, message) ==
    print_lines(io, "[critic]", splitlines(message), TRUE)

print_hook(io, message) ==
    print_and_log(
        print_lines(print_and_log(io, SeparatorLine, TRUE),
                    "[critic]", splitlines(message), TRUE),
        SeparatorLine, TRUE)

print_error(io, message) ==
    print_lines(io, "[critic:error]", splitlines(message), TRUE)

IO == [log |-> log, out |-> stdout]

\* The entries the log buffer is created with
LogHeader == <<<<"User: ", "local_username">>, <<"Path: ", "cwd">>,
               <<"Args: ", "argv">>, <<"">>>>

----------------------------------------------------------------------------
(* Inputs *)

Sha1 == "1111111111111111111111111111111111111111"
Sha2 == "2222222222222222222222222222222222222222"
\* "0" * 40
Zero40 == "0000000000000000000000000000000000000000"

\* What running `git rev-parse <ref>` does in the working directory: print a
\* commit id, exit non-zero (CalledProcessError), or fail to start (OSError)
GitCommit == [kind |-> "commit", out |-> <<Sha2, NL>>]
GitExitsNonZero == [kind |-> "CalledProcessError"]
GitCannotRun == [kind |-> "OSError"]

\* The command lines tried, each with the working directories it is tried in
PlainArgs ==
    [critic_url |-> <<"https://critic">>, repository_url |-> "git@host:repo.git",
     ref |-> "refs/heads/topic", sha |-> None, username |-> None,
     password |-> None, debug |-> FALSE, verify |-> FALSE]

FullArgs ==
    [critic_url |-> <<"https://critic", "/">>, repository_url |-> "git@host:repo.git",
     ref |-> "refs/heads/topic", sha |-> Some(<<Sha1>>),
     username |-> Some(<<"user">>), password |-> Some(<<"secret">>),
     debug |-> TRUE, verify |-> TRUE]

Configs ==
    {[args |-> PlainArgs, repo |-> r] :
        r \in {GitCommit, GitExitsNonZero, GitCannotRun}}
    \cup {[args |-> FullArgs, repo |-> r] : r \in {GitCommit, GitCannotRun}}
    \cup {[args |-> [PlainArgs EXCEPT !.sha = Some(<<>>), !.verify = TRUE,
                                      !.username = Some(<<"user">>)],
           repo |-> GitCannotRun],
          [args |-> [PlainArgs EXCEPT !.critic_url = <<>>, !.debug = TRUE],
           repo |-> GitCommit]}

\* str.strip(), for the white space the texts of the model hold
RECURSIVE strip(_)
strip(s) ==
    IF s = <<>> THEN s
    ELSE IF Head(s) = NL THEN strip(Tail(s))
    ELSE IF s[Len(s)] = NL THEN strip(SubSeq(s, 1, Len(s) - 1))
    ELSE s

----------------------------------------------------------------------------
(* The remote: what a requests.post call can come to *)

HookTexts == {<<>>, <<"line1", NL, "line2">>, <<"line1", NL, NL>>}

\* The value a response carries under key k (h: its hook_output, s: its
\* update_successful)
KeyValue(k, h, s) ==
    CASE k = "review" -> "R1"
      [] k = "branch" -> "B1"
      [] k = "hook_output" -> h
      [] k = "update_successful" -> s
      [] k = "error" -> "boom"
      [] OTHER -> TRUE

Dict(keys, h, s) == [k \in keys |-> KeyValue(k, h, s)]

StateKeys == {"review", "branch", "disabled", "update_ongoing",
              "update_pending", "update_triggered"}

\* Bodies whose status is not "ok": with and without the error text, and
\* without any status
FailedBodies ==
    {("status" :> "error") @@ Dict({"review", "update_triggered", "hook_output",
                                    "update_successful"} \cup E, <<"line1">>, TRUE) :
        E \in {{}, {"error"}}}
    \cup {Dict({"review", "update_triggered"}, <<>>, TRUE)}

\* Answers to the initial request: every combination of the state keys
InitialBodies ==
    {("status" :> "ok") @@ Dict(S, <<>>, TRUE) : S \in SUBSET StateKeys}
    \cup FailedBodies

\* Answers to a follow-up request
PollBodies ==
    {("status" :> "ok") @@ Dict(S, <<>>, TRUE) :
        S \in {{}, {"update_ongoing"}, {"update_pending"}}}
    \cup {("status" :> "ok") @@ Dict({"hook_output", "update_successful"}, h, s) :
            h \in HookTexts, s \in BOOLEAN}
    \cup {("status" :> "ok") @@ Dict({"hook_output", "update_ongoing",
                                      "update_pending", "update_successful"},
                                     <<"line1">>, FALSE),
          ("status" :> "ok") @@ Dict({"hook_output"}, <<"line1">>, TRUE)}
    \cup FailedBodies

\* How a requests.post call with the given timeout ends, and after how long:
\* a response in time, a connection failure, or requests.exceptions.Timeout
\* once the timeout has passed
Outcomes(bodies, timeout) ==
    LET quick == 0..Min(MaxDelay, timeout - 1)
    IN [kind : {"response"}, http_ok : {TRUE}, json : {TRUE}, body : bodies,
        elapsed : quick]
       \cup [kind : {"response"}, http_ok : {FALSE}, json : {TRUE},
             body : {("status" :> "ok")}, elapsed : {0}]
       \cup [kind : {"response"}, http_ok : {TRUE}, json : {FALSE},
             body : {<<>>}, elapsed : {0}]
       \cup [kind : {"ConnectionError"}, elapsed : {0}]
       \cup [kind : {"Timeout"}, elapsed : timeout..(timeout + MaxJitter)]

\* requests: a certificate is validated exactly when verify is true
CertificateValidated(req) == req.kwargs.verify

----------------------------------------------------------------------------
(* issue_request *)

\* A JSON object that carries the trigger field in every request
RequestData_always_trigger(trigger) ==
    [remote |-> args.repository_url, name |-> args.ref, value |-> value,
     disable_remote_transform |-> TRUE, trigger |-> TRUE]

\* The JSON object posted, and the call's arguments
RequestData(trigger) ==
    [remote |-> args.repository_url, name |-> args.ref, value |-> value,
     disable_remote_transform |-> TRUE]
    @@ (IF trigger THEN ("trigger" :> TRUE) ELSE <<>>)

\* A call whose timeout is the connection timeout, whatever the deadline is
Post_fixed_timeout(trigger) ==
    [kind |-> "post", url |-> critic_url, data |-> RequestData(trigger),
     timeout |-> connection_timeout * Unit + HalfUnit, kwargs |-> kwargs,
     at |-> now]

\* A call whose timeout is the time left to the deadline, without the margin
Post_no_margin(trigger) ==
    [kind |-> "post", url |-> critic_url, data |-> RequestData(trigger),
     timeout |-> deadline - now, kwargs |-> kwargs, at |-> now]

Post(trigger) ==
    [kind |-> "post", url |-> critic_url, data |-> RequestData(trigger),
     timeout |-> (deadline - now) + HalfUnit, kwargs |-> kwargs, at |-> now]

Raised(type, msg) == [type |-> type, msg |-> msg]

\* issue_request without its check of the status
issue_request_any_status(o) ==
    IF o.kind = "Timeout" THEN Raised("Timeout", <<>>)
    ELSE IF o.kind = "ConnectionError" THEN Raised("ConnectionError", <<>>)
    ELSE IF ~o.http_ok THEN Raised("HTTPError", <<>>)
    ELSE IF ~o.json THEN Raised("ValueError", <<>>)
    ELSE NoExc

\* issue_request without response.raise_for_status()
issue_request_unchecked_http(o) ==
    IF o.kind = "Timeout" THEN Raised("Timeout", <<>>)
    ELSE IF o.kind = "ConnectionError" THEN Raised("ConnectionError", <<>>)
    ELSE IF ~o.json THEN Raised("ValueError", <<>>)
    ELSE IF "status" \notin DOMAIN o.body THEN Raised("KeyError", <<"status">>)
    ELSE IF o.body["status"] # "ok"
         THEN IF "error" \notin DOMAIN o.body
              THEN Raised("KeyError", <<"error">>)
              ELSE Raised("Exception", <<"Request failed: ", o.body["error"]>>)
    ELSE NoExc

\* What issue_request does with the outcome o of requests.post: the exception
\* it raises, or NoExc when it returns o.body
issue_request(o) ==
    IF o.kind = "Timeout" THEN Raised("Timeout", <<>>)
    ELSE IF o.kind = "ConnectionError" THEN Raised("ConnectionError", <<>>)
    ELSE IF ~o.http_ok THEN Raised("HTTPError", <<>>)
    ELSE IF ~o.json THEN Raised("ValueError", <<>>)
    ELSE IF "status" \notin DOMAIN o.body THEN Raised("KeyError", <<"status">>)
    ELSE IF o.body["status"] # "ok"
         THEN IF "error" \notin DOMAIN o.body
              THEN Raised("KeyError", <<"error">>)
              ELSE Raised("Exception", <<"Request failed: ", o.body["error"]>>)
    ELSE NoExc

\* The outcome as the run keeps it: without its duration
Kept(o) ==
    IF o.kind = "response"
    THEN [kind |-> "response", http_ok |-> o.http_ok, json |-> o.json,
          body |-> o.body]
    ELSE [kind |-> o.kind]

\* main's outer handler: except Exception as e: ...; raise e
Handler(io, e) ==
    print_debug(print_debug(io, <<"Exception:">>, debug),
                <<"Traceback (most recent call last):", NL, e.type>>, debug)

----------------------------------------------------------------------------
Init ==
    /\ pc = "main"
    /\ \E c \in Configs : args = c.args /\ repo = c.repo
    /\ debug = FALSE
    \* the header entries, then pars_arguments' print_debug(str(args)),
    \* which runs while debug is still False
    /\ log = (print_debug([log |-> LogHeader, out |-> <<>>],
                          <<"Namespace">>, FALSE)).log
    /\ stdout = <<>>
    /\ critic_url = <<>>
    /\ kwargs = <<>>
    /\ value = <<>>
    /\ git_calls = 0
    /\ start = 0
    /\ deadline = 0
    /\ now = 0
    /\ nreq = 0
    /\ request = NoRequest
    /\ data = NoOutcome
    /\ received = 0
    /\ exc = NoExc
    /\ exit_code = NoExit

\* main, up to the outer try: the endpoint and the request options
MainSetup ==
    /\ pc = "main"
    /\ debug' = args.debug
    /\ IF args.critic_url = <<>>
       THEN LET io == print_error(IO, <<"No Critic URL set!">>)
            IN /\ log' = io.log
               /\ stdout' = io.out
               /\ pc' = "exit"
               /\ exit_code' = 1
               /\ UNCHANGED <<critic_url, kwargs>>
       ELSE /\ critic_url' =
                  (IF args.critic_url[Len(args.critic_url)] # "/"
                   THEN args.critic_url \o <<"/">>
                   ELSE args.critic_url) \o <<"UpdateTrackedBranch/githook">>
            /\ kwargs' =
                  (IF Truthy(args.username) /\ Truthy(args.password)
                   THEN ("auth" :> <<args.username.v, args.password.v>>)
                   ELSE <<>>) @@ ("verify" :> args.verify)
            /\ pc' = "resolve"
            /\ UNCHANGED <<log, stdout, exit_code>>
    /\ UNCHANGED <<args, repo, value, git_calls, start, deadline, now, nreq,
                   request, data, received, exc>>

\* ResolveValue without the fallback to the all-zero value
ResolveValue_no_fallback ==
    IF Truthy(args.sha) THEN [raised |-> NoExc, value |-> args.sha.v, git |-> FALSE]
    ELSE IF repo.kind = "commit"
         THEN [raised |-> NoExc, value |-> strip(repo.out), git |-> TRUE]
    ELSE [raised |-> Raised(repo.kind, <<>>), value |-> <<>>, git |-> TRUE]

\* ResolveValue asking git first and using --sha only when git fails
ResolveValue_git_first ==
    IF repo.kind = "commit"
    THEN [raised |-> NoExc, value |-> strip(repo.out), git |-> TRUE]
    ELSE IF Truthy(args.sha)
         THEN [raised |-> NoExc, value |-> args.sha.v, git |-> TRUE]
    ELSE IF repo.kind = "CalledProcessError"
         THEN [raised |-> NoExc, value |-> <<Zero40>>, git |-> TRUE]
    ELSE [raised |-> Raised("OSError", <<>>), value |-> <<>>, git |-> TRUE]

\* The commit value of the ref: [raised, value, git] (git: whether git ran)
ResolveValue ==
    IF Truthy(args.sha) THEN [raised |-> NoExc, value |-> args.sha.v, git |-> FALSE]
    ELSE IF repo.kind = "commit"
         THEN [raised |-> NoExc, value |-> strip(repo.out), git |-> TRUE]
    ELSE IF repo.kind = "CalledProcessError"
         THEN [raised |-> NoExc, value |-> <<Zero40>>, git |-> TRUE]
    ELSE [raised |-> Raised("OSError", <<>>), value |-> <<>>, git |-> TRUE]

\* main, from the outer try to the start of the ref's round
ResolveRef ==
    /\ pc = "resolve"
    /\ LET r == ResolveValue
       IN /\ git_calls' = git_calls + (IF r.git THEN 1 ELSE 0)
          /\ IF r.raised # NoExc
             THEN LET io == Handler(IO, r.raised)
                  IN /\ log' = io.log
                     /\ stdout' = io.out
                     /\ exc' = r.raised
                     /\ exit_code' = 1
                     /\ pc' = "exit"
                     /\ UNCHANGED <<value, start, deadline>>
             ELSE LET io == print_debug(IO, <<"[(ref, value)]">>, debug)
                  IN /\ log' = io.log
                     /\ stdout' = io.out
                     /\ value' = r.value
                     /\ start' = now
                     /\ deadline' = now + connection_timeout * Unit
                     /\ pc' = "request"
                     /\ UNCHANGED <<exc, exit_code>>
    /\ UNCHANGED <<args, repo, debug, critic_url, kwargs, now, nreq, request,
                   data, received>>

\* AfterInitial with one of its tests changed: `changed` is "branch" (an update
\* is only waited for when the response names no branch) or "order"
\* (update_triggered is tested before update_ongoing and update_pending)
AfterInitialChanged(io, d, changed) ==
    LET keys == DOMAIN d
        io1 == print_debug_json(io, "response", debug)
        triggered(io2) ==
            IF (changed = "branch" /\ "branch" \in keys) \/ "review" \notin keys
            THEN [io |-> print_progress(io2, <<"Update scheduled.">>), poll |-> FALSE]
            ELSE [io |-> print_progress(
                           io2, <<"Update triggered; waiting for it to complete...">>),
                  poll |-> TRUE]
    IN IF "review" \notin keys /\ "branch" \notin keys
       THEN [io |-> print_debug(io1, <<"Nothing to update!">>, debug), poll |-> FALSE]
       ELSE LET io2 == IF "review" \in keys
                       THEN print_progress(io1, <<"Review: ", d["review"]>>)
                       ELSE print_progress(io1, <<"Tracked branch: ", d["branch"]>>)
            IN IF "disabled" \in keys
               THEN [io |-> print_progress(io2, <<"Tracking is disabled!">>),
                     poll |-> FALSE]
               ELSE IF changed = "order" /\ "update_triggered" \in keys
               THEN triggered(io2)
               ELSE IF "update_ongoing" \in keys
               THEN [io |-> print_progress(io2, <<"Update already in progress.">>),
                     poll |-> FALSE]
               ELSE IF "update_pending" \in keys
               THEN [io |-> print_progress(io2, <<"Update already scheduled.">>),
                     poll |-> FALSE]
               ELSE IF "update_triggered" \in keys
               THEN triggered(io2)
               ELSE [io |-> io2, poll |-> FALSE]

AfterInitial_no_branch(io, d) == AfterInitialChanged(io, d, "branch")
AfterInitial_triggered_first(io, d) == AfterInitialChanged(io, d, "order")

\* main, after a successful initial request: the reports made for the
\* response d, and whether the polling phase is entered
AfterInitial(io, d) ==
    LET keys == DOMAIN d
        io1 == print_debug_json(io, "response", debug)
    IN IF "review" \notin keys /\ "branch" \notin keys
       THEN [io |-> print_debug(io1, <<"Nothing to update!">>, debug), poll |-> FALSE]
       ELSE LET io2 == IF "review" \in keys
                       THEN print_progress(io1, <<"Review: ", d["review"]>>)
                       ELSE print_progress(io1, <<"Tracked branch: ", d["branch"]>>)
            IN IF "disabled" \in keys
               THEN [io |-> print_progress(io2, <<"Tracking is disabled!">>),
                     poll |-> FALSE]
               ELSE IF "update_ongoing" \in keys
               THEN [io |-> print_progress(io2, <<"Update already in progress.">>),
                     poll |-> FALSE]
               ELSE IF "update_pending" \in keys
               THEN [io |-> print_progress(io2, <<"Update already scheduled.">>),
                     poll |-> FALSE]
               ELSE IF "update_triggered" \in keys
               THEN IF "review" \notin keys
                    THEN [io |-> print_progress(io2, <<"Update scheduled.">>),
                          poll |-> FALSE]
                    ELSE [io |-> print_progress(
                                   io2, <<"Update triggered; waiting for it to complete...">>),
                          poll |-> TRUE]
               ELSE [io |-> io2, poll |-> FALSE]

\* Finish with the handler swallowing the exception instead of raising it again
Finish_swallowed(io, e) ==
    \E io1 \in {IF e = NoExc THEN io ELSE Handler(io, e)} :
       /\ log' = io1.log
       /\ stdout' = io1.out
       /\ exc' = NoExc
       /\ exit_code' = 0
       /\ pc' = "exit"

\* The run ends: normally (e = NoExc), or with the exception e leaving main
\* through the outer handler
Finish(io, e) ==
    \E io1 \in {IF e = NoExc THEN io ELSE Handler(io, e)} :
       /\ log' = io1.log
       /\ stdout' = io1.out
       /\ exc' = e
       /\ exit_code' = (IF e = NoExc THEN 0 ELSE 1)
       /\ pc' = "exit"

\* The run goes on with the output io
Continue(io) ==
    /\ log' = io.log
    /\ stdout' = io.out
    /\ UNCHANGED <<exc, exit_code>>

\* data = issue_request(trigger=True), and what main does with the answer up
\* to the polling loop.  (Values are bound with \E over a singleton where a
\* value is used more than once.)
InitialRequest ==
    /\ pc = "request"
    /\ \E req \in {Post(TRUE)} :
       \E o \in Outcomes(InitialBodies, req.timeout) :
       \E e \in {issue_request(o)}, io0 \in {print_debug_json(IO, "request", debug)} :
          /\ request' = req
          /\ nreq' = nreq + 1
          /\ data' = Kept(o)
          /\ received' = now + o.elapsed
          /\ IF e.type = "Timeout"
             THEN /\ Finish(print_error(io0,
                         <<"Timeout (", ToString(connection_timeout),
                           "s) while notifying Critic!">>), e)
                  /\ now' = now + o.elapsed
                  /\ UNCHANGED deadline
             ELSE IF e # NoExc
             THEN /\ Finish(io0, e)
                  /\ now' = now + o.elapsed
                  /\ UNCHANGED deadline
             ELSE \E r \in {AfterInitial(io0, o.body)} :
                     IF r.poll
                     THEN /\ Continue(r.io)
                          /\ deadline' = start + update_timeout * Unit
                          \* time.sleep(0.5)
                          /\ now' = now + o.elapsed + HalfUnit
                          /\ pc' = "poll"
                     ELSE /\ Finish(r.io, NoExc)
                          /\ now' = now + o.elapsed
                          /\ UNCHANGED deadline
    /\ UNCHANGED <<args, repo, debug, critic_url, kwargs, value, git_calls,
                   start>>

\* A loop that still runs at the deadline itself
LoopCondition_inclusive == now <= deadline

\* while time.time() < deadline
LoopCondition == now < deadline

\* A round that tests update_ongoing and update_pending before hook_output
AfterPoll_flags_first(io, d) ==
    LET keys == DOMAIN d
    IN IF "update_ongoing" \in keys \/ "update_pending" \in keys
       THEN [io |-> io, raised |-> NoExc, done |-> FALSE]
       ELSE IF "hook_output" \notin keys
       THEN [io |-> print_progress(io, <<"Update completed without output.">>),
             raised |-> NoExc, done |-> TRUE]
       ELSE IF "update_successful" \notin keys
       THEN [io |-> io, raised |-> Raised("KeyError", <<"update_successful">>),
             done |-> TRUE]
       ELSE [io |-> print_hook(
                      IF ~d["update_successful"]
                      THEN print_error(io, <<"Critic rejected the update!">>)
                      ELSE io,
                      d["hook_output"]),
             raised |-> NoExc, done |-> TRUE]

\* A round whose "completed without output" branch does not leave the loop
AfterPoll_completed_continues(io, d) ==
    LET keys == DOMAIN d
    IN IF "hook_output" \in keys
       THEN IF "update_successful" \notin keys
            THEN [io |-> io, raised |-> Raised("KeyError", <<"update_successful">>),
                  done |-> TRUE]
            ELSE [io |-> print_hook(
                           IF ~d["update_successful"]
                           THEN print_error(io, <<"Critic rejected the update!">>)
                           ELSE io,
                           d["hook_output"]),
                  raised |-> NoExc, done |-> TRUE]
       ELSE IF ~("update_ongoing" \in keys \/ "update_pending" \in keys)
       THEN [io |-> print_progress(io, <<"Update completed without output.">>),
             raised |-> NoExc, done |-> FALSE]
       ELSE [io |-> io, raised |-> NoExc, done |-> FALSE]

\* One round of the polling loop that is answered with the dictionary d:
\* [io, raised, done]
AfterPoll(io, d) ==
    LET keys == DOMAIN d
    IN IF "hook_output" \in keys
       THEN IF "update_successful" \notin keys
            THEN [io |-> io, raised |-> Raised("KeyError", <<"update_successful">>),
                  done |-> TRUE]
            ELSE [io |-> print_hook(
                           IF ~d["update_successful"]
                           THEN print_error(io, <<"Critic rejected the update!">>)
                           ELSE io,
                           d["hook_output"]),
                  raised |-> NoExc, done |-> TRUE]
       ELSE IF ~("update_ongoing" \in keys \/ "update_pending" \in keys)
       THEN [io |-> print_progress(io, <<"Update completed without output.">>),
             raised |-> NoExc, done |-> TRUE]
       ELSE [io |-> io, raised |-> NoExc, done |-> FALSE]

\* time.sleep(0.5) whatever time remains
AfterSleep_fixed(after) == after + HalfUnit

\* No sleep between two rounds
AfterSleep_none(after) == after

\* time.sleep(min(0.5, remaining)) if remaining > 0: the time after it
AfterSleep(after) ==
    LET remaining == deadline - after
    IN IF remaining > 0 THEN after + Min(HalfUnit, remaining) ELSE after

\* while time.time() < deadline: one round of the loop
PollRequest ==
    /\ pc = "poll"
    /\ LoopCondition
    /\ \E req \in {Post(FALSE)} :
       \E o \in Outcomes(PollBodies, req.timeout) :
       \E e \in {issue_request(o)}, io0 \in {print_debug_json(IO, "request", debug)} :
          /\ request' = req
          /\ nreq' = nreq + 1
          /\ data' = Kept(o)
          /\ received' = now + o.elapsed
          /\ IF e.type = "Timeout"
             THEN \* continue
                  /\ Continue(io0)
                  /\ now' = now + o.elapsed
                  /\ UNCHANGED pc
             ELSE IF e # NoExc
             THEN /\ Finish(io0, e)
                  /\ now' = now + o.elapsed
             ELSE \E r \in {AfterPoll(io0, o.body)} :
                     IF r.done
                     THEN /\ Finish(r.io, r.raised)
                          /\ now' = now + o.elapsed
                     ELSE /\ Continue(r.io)
                          /\ now' = AfterSleep(now + o.elapsed)
                          /\ UNCHANGED pc
    /\ UNCHANGED <<args, repo, debug, critic_url, kwargs, value, git_calls,
                   start, deadline>>

\* The loop left as by a break: the else branch does not run
PollExpired_silent ==
    /\ pc = "poll"
    /\ ~LoopCondition
    /\ Finish(IO, NoExc)
    /\ UNCHANGED <<args, repo, debug, critic_url, kwargs, value, git_calls,
                   start, deadline, now, nreq, request, data, received>>

\* The loop condition is false: the loop's else branch
PollExpired ==
    /\ pc = "poll"
    /\ ~LoopCondition
    /\ Finish(print_progress(IO, <<"Timeout while waiting for update to complete.">>),
              NoExc)
    /\ UNCHANGED <<args, repo, debug, critic_url, kwargs, value, git_calls,
                   start, deadline, now, nreq, request, data, received>>

Next ==
    \/ MainSetup
    \/ ResolveRef
    \/ InitialRequest
    \/ PollRequest
    \/ PollExpired

Spec == Init /\ [][Next]_vars

\* The script is one sequential process that is never suspended for good: it
\* takes its next step whenever it has one (time advances, git returns, and
\* a request returns or times out)
FairSpec == Spec /\ WF_vars(Next)

----------------------------------------------------------------------------
(* Vocabulary of the properties *)

\* The lines of standard output that are not debug lines
Visible(lines) == SelectSeq(lines, LAMBDA l : l[1] # "[critic:debug]")

Progress(text) == <<"[critic]", "bytes">> \o text
Error(text) == <<"[critic:error]", "bytes">> \o text
Debug(text) == <<"[critic:debug]", "bytes">> \o text
Separator == <<"[critic]", "str", "-", "*", "60">>

ReviewLine == Progress(<<"Review: ", "R1">>)
BranchLine == Progress(<<"Tracked branch: ", "B1">>)
TriggeredLine == Progress(<<"Update triggered; waiting for it to complete...">>)
TimeoutLine == Progress(<<"Timeout while waiting for update to complete.">>)
NothingLine == Debug(<<"Nothing to update!">>)

Contains(lines, l) == \E i \in 1..Len(lines) : lines[i] = l
Count(lines, l) == Cardinality({i \in 1..Len(lines) : lines[i] = l})

\* The last request was answered with a JSON object
Answered == data.kind = "response" /\ data.http_ok /\ data.json
Keys == DOMAIN data.body
\* ... whose status is "ok"
AnsweredOk == Answered /\ "status" \in Keys /\ data.body["status"] = "ok"
\* ... whose status is something else
AnsweredNotOk == Answered /\ "status" \in Keys /\ data.body["status"] # "ok"

Exited == pc = "exit"
Succeeded == Exited /\ exit_code = 0 /\ exc = NoExc
Failed == Exited /\ exit_code = 1 /\ exc # NoExc

\* What is on standard output, debug lines aside, when the polling loop runs
PollingPreamble == <<ReviewLine, TriggeredLine>>

----------------------------------------------------------------------------
\* C1: whenever the last response received, initial or follow-up, has a
\* status other than "ok", the run has failed with an exception (with the
\* message "Request failed: <error>" when the response has an error text),
\* nothing of the response was reported (standard output holds, debug lines
\* aside, only what it held before the request, and the only response dumped
\* to the log is the initial one of a polling run), and the run is over, so
\* no further request is made.
C1_NonOkStatusFails ==
    AnsweredNotOk =>
        /\ Failed
        /\ "error" \in Keys =>
              exc = [type |-> "Exception", msg |-> <<"Request failed: ", "boom">>]
        /\ "error" \notin Keys => exc = [type |-> "KeyError", msg |-> <<"error">>]
        /\ Visible(stdout) = (IF nreq = 1 THEN <<>> ELSE PollingPreamble)
        /\ Count(log, Debug(<<"json", "response">>)) = (IF nreq = 1 THEN 0 ELSE 1)

C1_Witness ==
    /\ AnsweredNotOk /\ "error" \in Keys /\ "hook_output" \in Keys
    /\ nreq > 2 /\ Exited

\* C2 as stated: an initial response with status "ok" that has both
\* update_triggered and review is followed by a follow-up request (the run
\* stands at the polling loop with its condition true).
C2_Original ==
    (nreq = 1 /\ AnsweredOk /\ {"update_triggered", "review"} \subseteq Keys)
        => (pc = "poll" /\ now < deadline)

\* C2, amended: the same when the response has none of disabled,
\* update_ongoing and update_pending.
C2_TriggeredReviewIsPolled ==
    (/\ nreq = 1 /\ AnsweredOk /\ {"update_triggered", "review"} \subseteq Keys
     /\ Keys \cap {"disabled", "update_ongoing", "update_pending"} = {})
        => (pc = "poll" /\ now < deadline /\ now >= start + HalfUnit)

C2_Witness ==
    /\ nreq = 1 /\ AnsweredOk /\ pc = "poll"
    /\ {"update_triggered", "review", "branch"} \subseteq Keys

\* C3 as stated: an initial response with status "ok" and neither review nor
\* branch makes the run report "Nothing to update!" (on standard output),
\* make no further request and succeed.
C3_Original ==
    (nreq = 1 /\ AnsweredOk /\ Keys \cap {"review", "branch"} = {})
        => (Succeeded /\ Contains(stdout, NothingLine))

\* C3, amended: such a response makes the run record the debug line "Nothing
\* to update!" in the log buffer, write it to standard output exactly when
\* the debug flag is set and write nothing else but debug lines, make no
\* further request and succeed.
C3_NothingToUpdate ==
    (nreq = 1 /\ AnsweredOk /\ Keys \cap {"review", "branch"} = {})
        => /\ Succeeded
           /\ log[Len(log)] = NothingLine
           /\ Contains(stdout, NothingLine) <=> debug
           /\ Visible(stdout) = <<>>

C3_Witness ==
    /\ nreq = 1 /\ AnsweredOk /\ Exited /\ ~debug
    /\ Keys = {"status", "update_triggered", "disabled", "update_pending"}

\* C4: when the initial request times out, the run writes the error line
\* "Timeout (5s) while notifying Critic!" and nothing else but debug lines,
\* has made this one request only, and fails with the timeout exception.
C4_InitialTimeoutFails ==
    (nreq = 1 /\ data.kind = "Timeout")
        => /\ Failed /\ exc.type = "Timeout"
           /\ Visible(stdout) =
                 <<Error(<<"Timeout (", "5", "s) while notifying Critic!">>)>>
           /\ now >= start + 5 * Unit + HalfUnit

C4_Witness == nreq = 1 /\ data.kind = "Timeout" /\ Exited /\ debug

\* C5: when the polling phase was entered and the run is over with the last
\* follow-up response still not terminal (status "ok", update_ongoing or
\* update_pending, no hook_output), the deadline start + 30 has passed, the
\* run has reported "Timeout while waiting for update to complete." after
\* the two lines of the polling phase, and it has succeeded.
C5_PollingTimesOut ==
    (/\ Exited /\ nreq >= 2 /\ AnsweredOk /\ "hook_output" \notin Keys
     /\ Keys \cap {"update_ongoing", "update_pending"} # {})
        => /\ Succeeded
           /\ now >= start + 30 * Unit
           /\ Visible(stdout) = PollingPreamble \o <<TimeoutLine>>

C5_Witness ==
    /\ Exited /\ nreq > 40 /\ AnsweredOk /\ Keys = {"status", "update_pending"}
    /\ now = start + 30 * Unit

\* The lines of the hook outputs the remote sends
ExpectedHookLines(h) ==
    CASE h = <<>> -> <<>>
      [] h = <<"line1", NL, "line2">> -> <<Progress(<<"line1">>), Progress(<<"line2">>)>>
      [] h = <<"line1", NL, NL>> -> <<Progress(<<"line1">>), Progress(<<>>)>>
      [] h = <<"line1">> -> <<Progress(<<"line1">>)>>

\* C6: a follow-up response with status "ok", hook_output and a true
\* update_successful ends the run: standard output holds, debug lines aside
\* and in this order, the review line, the "Update triggered" line, a
\* separator, the lines of the hook output and a separator; there is no
\* error line, and the run has succeeded without a further request.
C6_HookOutputIsTerminal ==
    (/\ nreq >= 2 /\ AnsweredOk /\ {"hook_output", "update_successful"} \subseteq Keys
     /\ data.body["update_successful"])
        => /\ Succeeded
           /\ Visible(stdout) =
                 PollingPreamble \o <<Separator>>
                 \o ExpectedHookLines(data.body["hook_output"]) \o <<Separator>>

C6_Witness ==
    /\ nreq = 3 /\ AnsweredOk /\ Exited /\ debug
    /\ {"hook_output", "update_successful"} \subseteq Keys
    /\ data.body["update_successful"]
    /\ data.body["hook_output"] = <<"line1", NL, "line2">>

\* The run is past the resolution of the ref
Resolved == pc \in {"request", "poll"} \/ (Exited /\ nreq >= 1)
\* The run ended before any request was made
EndedUnsent == Exited /\ nreq = 0

\* C7 as stated: when no commit value is given and git fails, for whatever
\* reason, the value sent is the all-zero one and the run does send the
\* notification.
C7_Original ==
    (~Truthy(args.sha) /\ repo.kind # "commit" /\ args.critic_url # <<>>)
        => /\ ~EndedUnsent
           /\ request # NoRequest => request.data.value = <<Zero40>>

\* C7, amended: when no commit value is given and git exits with a non-zero
\* status, the value of the ref, and of every request, is the 40-character
\* all-zero one, and the run does send the notification; when git cannot be
\* run at all, the run fails before any request.
C7_FailedResolutionSendsZeros ==
    (~Truthy(args.sha) /\ args.critic_url # <<>>)
        => /\ repo.kind = "CalledProcessError" =>
                 /\ ~EndedUnsent
                 /\ Resolved => value = <<"0000000000000000000000000000000000000000">>
                 /\ request # NoRequest => request.data.value = value
           /\ (repo.kind = "OSError" /\ Exited) => (Failed /\ nreq = 0)

C7_Witness ==
    /\ args.sha = None /\ repo.kind = "CalledProcessError" /\ nreq >= 2
    /\ request.data.value = <<Zero40>>

\* C8: when a commit value is given, git is not run, and the value of the
\* ref, and of every request, is the given one, whatever git would have
\* answered.
C8_GivenShaIsSent ==
    Truthy(args.sha)
        => /\ git_calls = 0
           /\ Resolved => value = args.sha.v
           /\ request # NoRequest => request.data.value = args.sha.v

C8_Witness ==
    /\ Truthy(args.sha) /\ repo.kind = "OSError" /\ nreq >= 2
    /\ request.data.value = <<Sha1>>

\* C9 as documented: with --verify, no request validates the server's
\* certificate.
C9_VerifyDisablesValidation ==
    (args.verify /\ request # NoRequest) => ~CertificateValidated(request)

\* C10: a follow-up request is made only after an initial response with
\* review and update_triggered and none of disabled, update_ongoing and
\* update_pending; otherwise the first of disabled, update_ongoing,
\* update_pending and update_triggered that is present decides the report,
\* and a response with branch, update_triggered and no review is reported
\* as "Update scheduled." and is not polled.
C10_FlagPrecedence ==
    (nreq = 1 /\ AnsweredOk /\ pc # "request")
        => LET first == <<IF "review" \in Keys THEN ReviewLine ELSE BranchLine>>
               named == Keys \cap {"review", "branch"} # {}
           IN /\ pc = "poll" <=>
                    /\ {"review", "update_triggered"} \subseteq Keys
                    /\ Keys \cap {"disabled", "update_ongoing", "update_pending"} = {}
              /\ pc # "poll" => Succeeded
              /\ (named /\ "disabled" \in Keys) =>
                    Visible(stdout) = first \o <<Progress(<<"Tracking is disabled!">>)>>
              /\ (named /\ "disabled" \notin Keys /\ "update_ongoing" \in Keys) =>
                    Visible(stdout) =
                       first \o <<Progress(<<"Update already in progress.">>)>>
              /\ (named /\ Keys \cap {"disabled", "update_ongoing"} = {}
                        /\ "update_pending" \in Keys) =>
                    Visible(stdout) =
                       first \o <<Progress(<<"Update already scheduled.">>)>>
              /\ (/\ "branch" \in Keys /\ "review" \notin Keys
                  /\ "update_triggered" \in Keys
                  /\ Keys \cap {"disabled", "update_ongoing", "update_pending"} = {}) =>
                    Visible(stdout) = <<BranchLine, Progress(<<"Update scheduled.">>)>>

C10_Witness ==
    /\ nreq = 1 /\ AnsweredOk /\ Exited
    /\ Keys = {"status", "branch", "update_triggered"}
----------------------------------------------------------------------------
\* The last request was a follow-up request of the polling loop
FollowUp == nreq >= 2
CompletedLine == Progress(<<"Update completed without output.">>)

\* C11: once a follow-up request has raised a timeout, the run has not
\* failed, the clock is past the polling deadline by at least the half unit
\* added to the request's timeout (the request took at least its timeout), so
\* the loop condition is false and no further request can be issued, and the
\* run either is about to leave the loop or has exited successfully having
\* reported, after the polling preamble, exactly the line "Timeout while
\* waiting for update to complete.".
C11_PollTimeoutEndsPolling ==
    (FollowUp /\ data.kind = "Timeout") =>
        /\ exc = NoExc
        /\ received >= request.at + request.timeout
        /\ now >= deadline + HalfUnit
        /\ ~LoopCondition
        /\ ~ENABLED PollRequest
        /\ \/ pc = "poll" /\ Visible(stdout) = PollingPreamble
           \/ /\ Succeeded
              /\ Visible(stdout) = PollingPreamble \o <<TimeoutLine>>

\* A follow-up request issued after the first second of polling has timed out
\* and the run has exited
C11_Witness ==
    /\ FollowUp /\ data.kind = "Timeout" /\ Succeeded
    /\ request.at > start + Unit
    /\ nreq >= 3

----------------------------------------------------------------------------
\* C12: every follow-up request is started strictly before start + update
\* timeout, where start is the time taken just before the initial request;
\* the first follow-up request is started at least half a unit after the
\* initial response was received; and when the loop is reached with the
\* deadline passed, the next step ends the run without another request.
C12_PollsWithinDeadline ==
    /\ [](FollowUp =>
            /\ request.at < start + update_timeout * Unit
            /\ request.at >= start + HalfUnit)
    /\ [][(nreq = 1 /\ nreq' = 2) =>
            request'.at >= received + HalfUnit]_vars
    /\ [][(pc = "poll" /\ now >= start + update_timeout * Unit) =>
            (nreq' = nreq /\ pc' = "exit")]_vars

\* A follow-up request was started on the last tick before the deadline, and
\* the run ended with the timeout report without starting another one
C12_Witness ==
    /\ FollowUp
    /\ request.at = start + update_timeout * Unit - 1
    /\ now >= start + update_timeout * Unit
    /\ Succeeded
    /\ Contains(stdout, TimeoutLine)

----------------------------------------------------------------------------
\* The last response says that the update is still ongoing or pending
StillUpdating == Keys \cap {"update_ongoing", "update_pending"} # {}

\* C13: after a follow-up response with status "ok" and no hook_output: if
\* neither update_ongoing nor update_pending is present, the run has exited
\* successfully, at the time of the response, having reported after the
\* polling preamble exactly "Update completed without output.", and makes no
\* further request; otherwise the run has not ended with that response: it
\* has slept min(0.5, remaining) from the response when time remained and not
\* at all otherwise, another follow-up request is possible exactly while the
\* deadline has not passed, and the run can only have ended through the
\* loop's timeout report.
C13_ResponseWithoutHookOutput ==
    (FollowUp /\ AnsweredOk /\ "hook_output" \notin Keys) =>
        IF ~StillUpdating
        THEN /\ Succeeded
             /\ now = received
             /\ Visible(stdout) = PollingPreamble \o <<CompletedLine>>
             /\ ~ENABLED Next
        ELSE /\ exc = NoExc
             /\ ~Contains(stdout, CompletedLine)
             /\ now = (IF deadline - received > 0
                       THEN received + Min(HalfUnit, deadline - received)
                       ELSE received)
             /\ \/ /\ pc = "poll"
                   /\ Visible(stdout) = PollingPreamble
                   /\ (now < deadline) <=> ENABLED PollRequest
                \/ /\ Succeeded
                   /\ now >= deadline
                   /\ Visible(stdout) = PollingPreamble \o <<TimeoutLine>>

\* A non-terminal response arrived a quarter unit before the deadline: the
\* run slept for the remaining quarter only and is back at the loop
C13_Witness ==
    /\ FollowUp /\ AnsweredOk /\ "hook_output" \notin Keys /\ StillUpdating
    /\ pc = "poll"
    /\ received = deadline - 1
    /\ now = deadline

----------------------------------------------------------------------------
RejectedLine == Error(<<"Critic rejected the update!">>)

\* C14: after a follow-up response that contains hook_output with
\* update_successful false, whether or not update_ongoing or update_pending
\* is present as well, the run has exited successfully at the time of the
\* response, standard output holds (debug lines aside) the polling preamble,
\* then the error line "Critic rejected the update!", then the framed hook
\* output, and nothing else, and no further request is made.
C14_RejectedUpdateIsReported ==
    (/\ FollowUp /\ AnsweredOk
     /\ "hook_output" \in Keys
     /\ "update_successful" \in Keys
     /\ ~data.body["update_successful"]) =>
        /\ Succeeded
        /\ now = received
        /\ Visible(stdout) =
              PollingPreamble \o <<RejectedLine, Separator>>
              \o ExpectedHookLines(data.body["hook_output"]) \o <<Separator>>
        /\ Count(log, RejectedLine) = 1
        /\ ~ENABLED Next

\* A rejected update whose response also carries update_ongoing and
\* update_pending
C14_Witness ==
    /\ FollowUp /\ AnsweredOk
    /\ {"hook_output", "update_successful", "update_ongoing",
        "update_pending"} \subseteq Keys
    /\ ~data.body["update_successful"]
    /\ Exited

----------------------------------------------------------------------------
\* The fields every request of a run shares
SharedFields(req) ==
    <<req.url, req.data.remote, req.data.name, req.data.value,
      req.data.disable_remote_transform>>

\* C15: the first request of a run, and no later one, has the trigger field,
\* with the value true; every request carries the repository URL and the ref
\* given on the command line, the value resolved for the ref, and
\* disable_remote_transform true, and goes to the endpoint; and each request
\* has the same endpoint, remote, name, value and disable_remote_transform as
\* the request before it.
C15_RequestsOfARun ==
    /\ [](request # NoRequest =>
            /\ ("trigger" \in DOMAIN request.data) <=> (nreq = 1)
            /\ nreq = 1 => request.data["trigger"] = TRUE
            /\ DOMAIN request.data \ {"trigger"} =
                  {"remote", "name", "value", "disable_remote_transform"}
            /\ request.data.remote = args.repository_url
            /\ request.data.name = args.ref
            /\ request.data.value = value
            /\ request.data.disable_remote_transform = TRUE
            /\ request.url = critic_url)
    /\ [][request # NoRequest =>
            SharedFields(request') = SharedFields(request)]_vars

\* A third request has been made
C15_Witness ==
    /\ nreq = 3
    /\ "trigger" \notin DOMAIN request.data
    /\ request.data.value = <<Sha2>>

----------------------------------------------------------------------------
\* The exception type of the way the last request failed, "none" when it did
\* not fail, timeouts aside
FailureType ==
    IF data.kind = "ConnectionError" THEN "ConnectionError"
    ELSE IF data.kind # "response" THEN "none"
    ELSE IF ~data.http_ok THEN "HTTPError"
    ELSE IF ~data.json THEN "ValueError"
    ELSE IF "status" \notin Keys THEN "KeyError"
    ELSE IF data.body["status"] # "ok"
         THEN IF "error" \in Keys THEN "Exception" ELSE "KeyError"
    ELSE IF FollowUp /\ "hook_output" \in Keys /\ "update_successful" \notin Keys
         THEN "KeyError"
    ELSE "none"

\* What the outer handler appends for an exception of the given type
HandlerLines(type) ==
    <<Debug(<<"Exception:">>), Debug(<<"Traceback (most recent call last):">>),
      Debug(<<type>>)>>

EndsWith(lines, tail) ==
    /\ Len(lines) >= Len(tail)
    /\ SubSeq(lines, Len(lines) - Len(tail) + 1, Len(lines)) = tail

\* C16: when the last request, initial or follow-up, failed with something
\* other than a timeout (an HTTP error status, a connection error, a body
\* that is not JSON, a missing key), the run has failed with that exception
\* and a non-zero exit code at the time of the failure; the last entries of
\* the log are the handler's "Exception:" and traceback lines (also the last
\* lines of standard output when the debug flag is set); nothing of the
\* response was reported and no completion or timeout message was made:
\* standard output holds, debug lines aside, only what it held before the
\* request; and no further request is made.
C16_FailureIsLoggedAndRaised ==
    (request # NoRequest /\ FailureType # "none") =>
        /\ Failed
        /\ exc.type = FailureType
        /\ now = received
        /\ EndsWith(log, HandlerLines(FailureType))
        /\ debug => EndsWith(stdout, HandlerLines(FailureType))
        /\ Count(log, Debug(<<"Exception:">>)) = 1
        /\ Visible(stdout) = (IF FollowUp THEN PollingPreamble ELSE <<>>)
        /\ ~Contains(log, TimeoutLine)
        /\ ~Contains(log, CompletedLine)
        /\ ~Contains(log, Separator)
        /\ ~ENABLED Next

\* A follow-up request was answered with an HTTP error status
C16_Witness ==
    /\ FollowUp
    /\ FailureType = "HTTPError"
    /\ Exited

----------------------------------------------------------------------------
\* The deadline in force for the last request: start + connection timeout
\* for the initial request, start + update timeout for a follow-up request
DeadlineOfRequest ==
    start + (IF FollowUp THEN update_timeout ELSE connection_timeout) * Unit

\* C17: every request is issued with the timeout (deadline - now) + 0.5,
\* where now is the time the request is issued at and deadline is start +
\* connection timeout for the initial request and start + update timeout for
\* every follow-up request; it is the deadline of the run at that moment; and
\* the timeout is strictly greater than 0.5.
C17_RequestTimeout ==
    request # NoRequest =>
        /\ request.timeout = (DeadlineOfRequest - request.at) + HalfUnit
        /\ nreq = 1 => request.timeout = connection_timeout * Unit + HalfUnit
        /\ FollowUp => deadline = DeadlineOfRequest
        /\ request.timeout > HalfUnit

\* A follow-up request was issued a quarter unit before the polling deadline,
\* long after the connection deadline
C17_Witness ==
    /\ FollowUp
    /\ request.at = start + update_timeout * Unit - 1
    /\ request.at > start + connection_timeout * Unit
    /\ request.timeout = HalfUnit + 1

----------------------------------------------------------------------------
\* The log buffer after the entries it is created with
LogTail == SubSeq(log, Len(LogHeader) + 1, Len(log))
\* The line pars_arguments logs: the first entry after the header
ArgumentDump == Debug(<<"Namespace">>)

\* C18 as stated: when the run is over, the log buffer after its header
\* entries holds the lines of standard output, in the same order.
C18_Original ==
    Exited => LogTail = stdout

\* C18: standard output holds lines of the log buffer, in the order of the
\* log: the lines that are not debug lines are the same in both; the log's
\* first entry after the header is the argument dump, which is never
\* printed; without the debug flag standard output is the log after its
\* header without the debug lines, and with the debug flag it is the log
\* after its header and the argument dump.
C18_StdoutIsPartOfLog ==
    /\ Len(LogTail) >= 1
    /\ LogTail[1] = ArgumentDump
    /\ Visible(stdout) = Visible(LogTail)
    /\ stdout = (IF debug THEN Tail(LogTail) ELSE Visible(LogTail))

\* A polling run without the debug flag has ended: the log holds debug
\* lines that standard output does not
C18_Witness ==
    /\ Succeeded /\ FollowUp /\ ~debug
    /\ Contains(log, Debug(<<"json", "request">>))
    /\ Len(stdout) >= 3
    /\ Len(LogTail) > Len(stdout)

----------------------------------------------------------------------------
\* The run has entered the polling phase
EnteredPolling == Contains(stdout, TriggeredLine)
\* How often each terminal report is on standard output; a framed hook
\* output has two separator lines
HookReports == Count(stdout, Separator)
CompletedReports == Count(stdout, CompletedLine)
TimeoutReports == Count(stdout, TimeoutLine)
\* The last follow-up request did not end the polling: it timed out, or was
\* answered "ok" with update_ongoing or update_pending and no hook_output
NotTerminal ==
    \/ data.kind = "Timeout"
    \/ AnsweredOk /\ "hook_output" \notin Keys /\ StillUpdating

\* C19: a run that has entered the polling phase and ended without failing
\* has made exactly one terminal report, once: the framed hook output, or
\* "Update completed without output.", or "Timeout while waiting for update
\* to complete."; a timeout report is only made when the last follow-up
\* response was not terminal; and while the run can still issue a request
\* (it is at the loop) none of the reports has been made and no follow-up
\* response received so far was terminal.
C19_OneTerminalReport ==
    /\ (Succeeded /\ EnteredPolling) =>
          /\ FollowUp
          /\ \/ HookReports = 2 /\ CompletedReports = 0 /\ TimeoutReports = 0
             \/ HookReports = 0 /\ CompletedReports = 1 /\ TimeoutReports = 0
             \/ HookReports = 0 /\ CompletedReports = 0 /\ TimeoutReports = 1
          /\ TimeoutReports = 1 <=> NotTerminal
          /\ ~ENABLED Next
    /\ pc = "poll" =>
          /\ EnteredPolling
          /\ HookReports = 0 /\ CompletedReports = 0 /\ TimeoutReports = 0
          /\ FollowUp => NotTerminal
    /\ ~EnteredPolling =>
          HookReports = 0 /\ CompletedReports = 0 /\ TimeoutReports = 0

\* A run ended with the framed hook output after several non-terminal
\* follow-up responses
C19_Witness ==
    /\ Succeeded /\ EnteredPolling
    /\ nreq >= 4
    /\ HookReports = 2
    /\ now > start + Unit

----------------------------------------------------------------------------
\* The most requests a run can make: the initial one, and a follow-up at
\* most every half unit from start + 0.5 to before start + update timeout
MaxRequests == 2 * update_timeout

\* C20: every run reaches its end, with exit code 0 or 1, whatever the
\* remote answers: the run is never stuck before its end, the clock is
\* strictly later at each return to the polling loop than at the one before,
\* the loop is only entered with the polling deadline set to start + update
\* timeout, and a run makes at most MaxRequests requests.
C20_RunTerminates ==
    /\ <>Exited
    /\ [](Exited => exit_code \in {0, 1})
    /\ [](Exited \/ ENABLED Next)
    /\ [](pc = "poll" => deadline = start + update_timeout * Unit)
    /\ [][(pc = "poll" /\ pc' = "poll") => now' > now]_vars
    /\ [](nreq <= MaxRequests)

\* Every follow-up request the deadline allows was made, each answered with
\* update_ongoing or update_pending, and the run ended by the timeout report
C20_Witness ==
    /\ Succeeded
    /\ nreq = MaxRequests
    /\ NotTerminal
    /\ TimeoutReports = 1

====
